---- MODULE Spec2Model ----
(***************************************************************************)
(* Model of app.py: a Flask backend with three handlers (consent,         *)
(* do_lookup, read_logs) around one outbound geolocation call and one     *)
(* append-only CSV file.                                                   *)
(*                                                                         *)
(* A Python str is a sequence of tokens (<<>> is ""); a token is a run of  *)
(* characters that no operation of the program splits, so the separators   *)
(* the code looks at (comma, blank, double quote, backslash, brackets) are *)
(* tokens of their own.                                                    *)
(***************************************************************************)
EXTENDS Integers, Sequences, FiniteSets, TLC

\* ------------------------------------------------------------- bounds --
NumWorkers == 2
MaxLookups == 2
MaxXffLen == 3

Workers == 1..NumWorkers

\* ------------------------------------------------------------ strings --
Whitespace == {" ", "\t"}

RECURSIVE Split(_, _)
\* str.split(sep): always at least one entry
Split(s, sep) ==
  IF s = <<>> THEN << <<>> >>
  ELSE LET rest == Split(Tail(s), sep)
       IN  IF Head(s) = sep THEN << <<>> >> \o rest
           ELSE << <<Head(s)>> \o rest[1] >> \o Tail(rest)

RECURSIVE LStrip(_)
LStrip(s) ==
  IF s # <<>> /\ Head(s) \in Whitespace THEN LStrip(Tail(s)) ELSE s

RECURSIVE RStrip(_)
RStrip(s) ==
  IF s # <<>> /\ s[Len(s)] \in Whitespace THEN RStrip(SubSeq(s, 1, Len(s) - 1)) ELSE s

\* str.strip()
Strip(s) == RStrip(LStrip(s))

RECURSIVE Join(_, _)
\* sep.join(parts)
Join(parts, sep) ==
  IF parts = <<>> THEN <<>>
  ELSE IF Len(parts) = 1 THEN parts[1]
  ELSE parts[1] \o sep \o Join(Tail(parts), sep)

\* an optional value: None, or a value that is present
None == [some |-> FALSE]
Some(s) == [some |-> TRUE, v |-> s]
\* dict.get(name, default) / `x or ""`
Get(opt, default) == IF opt.some THEN opt.v ELSE default

\* --------------------------------------------------------------- JSON --
\* decoded JSON values, tagged so that {} and [] and "" stay distinct
JNull == [t |-> "null"]
JStr(s) == [t |-> "str", s |-> s]
JArr(a) == [t |-> "arr", a |-> a]
JObj(o) == [t |-> "obj", o |-> o]
EmptyDict == JObj(<<>>)

RECURSIVE JEscape(_)
\* escaping of a string's contents by json.dumps
JEscape(s) ==
  IF s = <<>> THEN <<>>
  ELSE (IF Head(s) \in {"\"", "\\"} THEN <<"\\", Head(s)>> ELSE <<Head(s)>>)
       \o JEscape(Tail(s))

\* a set as a sequence, in some fixed order
RECURSIVE SetToSeq(_)
SetToSeq(S) ==
  IF S = {} THEN <<>>
  ELSE LET x == CHOOSE x \in S : TRUE IN <<x>> \o SetToSeq(S \ {x})

RECURSIVE json_dumps(_)
\* json.dumps(v, ensure_ascii=False): separators ", " and ": "
json_dumps(v) ==
  CASE v.t = "null" -> <<"null">>
    [] v.t = "str"  -> <<"\"">> \o JEscape(v.s) \o <<"\"">>
    [] v.t = "arr"  ->
         <<"[">> \o Join([i \in 1..Len(v.a) |-> json_dumps(v.a[i])], <<",", " ">>) \o <<"]">>
    [] v.t = "obj"  ->
         LET ks == SetToSeq(DOMAIN v.o)
         IN  <<"{">>
             \o Join([i \in 1..Len(ks) |->
                        json_dumps(JStr(ks[i])) \o <<":", " ">> \o json_dumps(v.o[ks[i]])],
                     <<",", " ">>)
             \o <<"}">>

\* result of a parse step: the value and the unread rest, or a failure
POk(v, rest) == [ok |-> TRUE, v |-> v, rest |-> rest]
PFail == [ok |-> FALSE]

RECURSIVE ParseString(_, _)
\* after the opening quote: read up to the closing quote, undoing escapes
ParseString(s, acc) ==
  IF s = <<>> THEN PFail
  ELSE IF Head(s) = "\"" THEN POk(JStr(acc), Tail(s))
  ELSE IF Head(s) = "\\"
       THEN IF Len(s) >= 2 /\ s[2] \in {"\"", "\\"}
            THEN ParseString(Tail(Tail(s)), Append(acc, s[2]))
            ELSE PFail
  ELSE ParseString(Tail(s), Append(acc, Head(s)))

RECURSIVE ParseValue(_)
RECURSIVE ParseElems(_, _)
RECURSIVE ParseMembers(_, _)

\* the elements of an array after "[" or after a comma
ParseElems(s, acc) ==
  LET e == ParseValue(s)
  IN  IF ~e.ok THEN PFail
      ELSE LET r == LStrip(e.rest)
           IN  IF r = <<>> THEN PFail
               ELSE IF Head(r) = "]" THEN POk(JArr(Append(acc, e.v)), Tail(r))
               ELSE IF Head(r) = "," THEN ParseElems(Tail(r), Append(acc, e.v))
               ELSE PFail

\* the members of an object after "{" or after a comma; a later duplicate key wins
ParseMembers(s, acc) ==
  LET s1 == LStrip(s)
  IN  IF s1 = <<>> \/ Head(s1) # "\"" THEN PFail
      ELSE LET k == ParseString(Tail(s1), <<>>)
           IN  IF ~k.ok THEN PFail
               ELSE LET r1 == LStrip(k.rest)
                    IN  IF r1 = <<>> \/ Head(r1) # ":" THEN PFail
                        ELSE LET e == ParseValue(Tail(r1))
                             IN  IF ~e.ok THEN PFail
                                 ELSE LET r  == LStrip(e.rest)
                                          o2 == [x \in DOMAIN acc \cup {k.v.s} |->
                                                   IF x = k.v.s THEN e.v ELSE acc[x]]
                                      IN  IF r = <<>> THEN PFail
                                          ELSE IF Head(r) = "}" THEN POk(JObj(o2), Tail(r))
                                          ELSE IF Head(r) = "," THEN ParseMembers(Tail(r), o2)
                                          ELSE PFail

\* one JSON value at the front of s
ParseValue(s0) ==
  LET s == LStrip(s0)
  IN  IF s = <<>> THEN PFail
      ELSE IF Head(s) = "null" THEN POk(JNull, Tail(s))
      ELSE IF Head(s) = "\"" THEN ParseString(Tail(s), <<>>)
      ELSE IF Head(s) = "["
           THEN LET r == LStrip(Tail(s))
                IN  IF r # <<>> /\ Head(r) = "]" THEN POk(JArr(<<>>), Tail(r))
                    ELSE ParseElems(r, <<>>)
      ELSE IF Head(s) = "{"
           THEN LET r == LStrip(Tail(s))
                IN  IF r # <<>> /\ Head(r) = "}" THEN POk(EmptyDict, Tail(r))
                    ELSE ParseMembers(r, <<>>)
      ELSE PFail

\* json.loads(s): [ok |-> TRUE, v |-> value], or [ok |-> FALSE] for JSONDecodeError
json_loads(s) ==
  LET p == ParseValue(s)
  IN  IF p.ok /\ LStrip(p.rest) = <<>> THEN [ok |-> TRUE, v |-> p.v] ELSE [ok |-> FALSE]

\* ---------------------------------------------------------------- CSV --
\* csv "excel" dialect: delimiter ",", quotechar '"', doublequote, QUOTE_MINIMAL
CsvSpecial == {",", "\"", "\n", "\r"}

RECURSIVE CsvDouble(_)
CsvDouble(s) ==
  IF s = <<>> THEN <<>>
  ELSE (IF Head(s) = "\"" THEN <<"\"", "\"">> ELSE <<Head(s)>>) \o CsvDouble(Tail(s))

CsvField(s) ==
  IF \E i \in 1..Len(s) : s[i] \in CsvSpecial
  THEN <<"\"">> \o CsvDouble(s) \o <<"\"">>
  ELSE s

\* csv.writer.writerow: one line, without its line terminator
csv_writerow(cells) == Join([i \in 1..Len(cells) |-> CsvField(cells[i])], <<",">>)

RECURSIVE CsvParse(_, _, _, _)
\* csv.reader on one line: s unread, inq inside quotes, cur the field being
\* read, acc the fields already read
CsvParse(s, inq, cur, acc) ==
  IF s = <<>> THEN Append(acc, cur)
  ELSE IF inq
       THEN IF Head(s) = "\""
            THEN IF Len(s) >= 2 /\ s[2] = "\""
                 THEN CsvParse(Tail(Tail(s)), TRUE, Append(cur, "\""), acc)
                 ELSE CsvParse(Tail(s), FALSE, cur, acc)
            ELSE CsvParse(Tail(s), TRUE, Append(cur, Head(s)), acc)
  ELSE IF Head(s) = "," THEN CsvParse(Tail(s), FALSE, <<>>, Append(acc, cur))
  ELSE IF Head(s) = "\"" /\ cur = <<>> THEN CsvParse(Tail(s), TRUE, cur, acc)
  ELSE CsvParse(Tail(s), FALSE, Append(cur, Head(s)), acc)

csv_readrow(line) == CsvParse(line, FALSE, <<>>, <<>>)

\* ----------------------------------------------------- configuration --
\* values APIIP_KEY can have once the module has loaded (it is non-empty)
Keys == {"key-A"}

\* ------------------------------------------------------------- inputs --
\* a request: the X-Forwarded-For and User-Agent headers and request.remote_addr
NoRequest == [xff |-> None, user_agent |-> None, remote_addr |-> None]

AddrValues == {None, Some(<<"9.9.9.9">>)}
Agent == <<"Mozilla", ",", " ", "Gecko">>
\* a request without headers or peer address, and one forwarded by a proxy
Requests ==
  { NoRequest,
    [xff |-> Some(<<"1.2.3.4", ",", " ", "5.6.7.6">>), user_agent |-> Some(Agent),
     remote_addr |-> Some(<<"9.9.9.9">>)] }

\* requests with every forwarding header of up to MaxXffLen tokens
XffTokens == {"1.2.3.4", ",", " "}
XffStrings == UNION {[1..n -> XffTokens] : n \in 0..MaxXffLen}
AllRequests ==
  {[xff |-> x, user_agent |-> None, remote_addr |-> p] :
     x \in {None} \cup {Some(s) : s \in XffStrings},
     p \in AddrValues \cup {Some(<<>>)}}

\* what apiip.net can do with the call: a 2xx reply with a JSON body, or a failure
Payloads == {JNull, EmptyDict, JObj(<<"city">> :> JStr(<<"Pune">>))}
FailKinds == {"http_status", "read_timeout"}
Upstream == {[kind |-> "ok", body |-> b] : b \in Payloads} \cup {[kind |-> k] : k \in FailKinds}

VARIABLES
  APIIP_KEY,    \* os.getenv("APIIP_KEY")
  TRUST_PROXY,  \* os.getenv("TRUST_PROXY") == "true"
  LOG_FILE,     \* visitor_logs.csv: whether it exists, and its lines
  clock,        \* POST /lookup requests accepted so far; the UTC instant
  pc,           \* where each worker is in do_lookup
  req,          \* the request a worker is serving
  ip,           \* do_lookup's local ip
  ua,           \* do_lookup's local ua
  geo,          \* do_lookup's local geo
  row,          \* the dict passed to log_visit, in fieldnames order
  file_exists,  \* log_visit's local file_exists
  upstream,     \* what apiip.net did in the step just taken, if it was called
  resp,         \* the response of the POST /lookup that the step just taken ended
  logsResp,     \* the response of the last GET /logs since the last do_lookup step
  lastReq,      \* the handler that took the last step
  logsRun,      \* GET /logs calls since the last do_lookup step (at most 2)
  appended      \* the records log_visit has written, in order

vars == <<APIIP_KEY, TRUST_PROXY, LOG_FILE, clock, pc, req, ip, ua, geo, row,
          file_exists, upstream, resp, logsResp, lastReq, logsRun, appended>>

config == <<APIIP_KEY, TRUST_PROXY>>
locals == <<req, ip, ua, geo, row, file_exists>>

NoResp == [status |-> 0]
NoCall == [kind |-> "none"]

\* ------------------------------------------------------ get_client_ip --
get_client_ip_nostrip(r) ==
  LET xff == Get(r.xff, <<>>)
  IN  IF TRUST_PROXY /\ xff # <<>> THEN Split(xff, ",")[1]
      ELSE Get(r.remote_addr, <<>>)

get_client_ip(r) ==
  LET xff == Get(r.xff, <<>>)
  IN  IF TRUST_PROXY /\ xff # <<>> THEN Strip(Split(xff, ",")[1])
      ELSE Get(r.remote_addr, <<>>)

\* --------------------------------------------------------- geo_lookup --
RECURSIVE QuotePlus(_)
\* urlencode's quoting of a value
QuotePlus(s) ==
  IF s = <<>> THEN <<>>
  ELSE <<(CASE Head(s) = " " -> "+" [] Head(s) = "," -> "%2C" [] Head(s) = "\t" -> "%09"
            [] OTHER -> Head(s))>> \o QuotePlus(Tail(s))

\* urlencode(params)
Query(i) ==
  <<"accessKey", "=", APIIP_KEY>> \o (IF i # <<>> THEN <<"&", "ip", "=">> \o QuotePlus(i) ELSE <<>>)

Timeout == 10

\* str(e) of the requests.RequestException raised by requests.get / raise_for_status
ErrorText(kind, i) ==
  CASE kind = "http_status" ->
         <<"403 Client Error: Forbidden for url: ", "https://apiip.net", "/api/check", "?">> \o Query(i)
    [] kind = "read_timeout" ->
         <<"HTTPSConnectionPool(host='apiip.net', port=443): Read timed out. (read timeout=",
           ToString(Timeout), ")">>

\* the decoded body, or the exception
geo_lookup(i, u) ==
  IF u.kind = "ok" THEN [ok |-> TRUE, geo |-> u.body]
  ELSE [ok |-> FALSE, error |-> ErrorText(u.kind, i)]

\* ---------------------------------------------------------- log_visit --
fieldnames == << <<"ts">>, <<"ip">>, <<"user_agent">>, <<"geo_json">> >>

log_visit_truncate(fe, lines, r) ==
  (IF ~fe THEN <<csv_writerow(fieldnames)>> ELSE <<>>) \o <<csv_writerow(r)>>

\* the lines of the file after open(LOG_FILE, "a"), writeheader, writerow, close
log_visit(fe, lines, r) ==
  lines \o (IF ~fe THEN <<csv_writerow(fieldnames)>> ELSE <<>>) \o <<csv_writerow(r)>>

\* datetime.utcnow().isoformat() + "Z"
Timestamp(n) == <<"2026-01-01T00:00:0" , ToString(n), "Z">>

\* the dict do_lookup passes to log_visit
VisitRow(n, i, a, g) == <<Timestamp(n), i, a, json_dumps(g)>>

\* ---------------------------------------------------------- read_logs --
Last(S) == CHOOSE j \in S : \A k \in S : k <= j

\* csv.DictReader: the first line gives the keys of every later line
RowDict(fn, cells) ==
  [k \in {fn[j] : j \in 1..Len(fn)} |->
     LET j == Last({m \in 1..Len(fn) : fn[m] = k})
     IN  IF j <= Len(cells) THEN Some(cells[j]) ELSE None]

DictReader(lines) ==
  IF lines = <<>> THEN <<>>
  ELSE LET fn == csv_readrow(lines[1])
       IN  [n \in 1..(Len(lines) - 1) |-> RowDict(fn, csv_readrow(lines[n + 1]))]

CellJson(c) == IF c.some THEN JStr(c.v) ELSE JNull

\* the loop body: row["geo_json"] = json.loads(row["geo_json"]) if row.get("geo_json") else {}
DecodeRow(d) ==
  LET G == <<"geo_json">>
      cell == IF G \in DOMAIN d THEN d[G] ELSE None
      l == IF cell.some /\ cell.v # <<>> THEN json_loads(cell.v) ELSE [ok |-> TRUE, v |-> EmptyDict]
  IN  IF ~l.ok THEN [ok |-> FALSE]
      ELSE [ok |-> TRUE,
            row |-> JObj([k \in DOMAIN d \cup {G} |-> IF k = G THEN l.v ELSE CellJson(d[k])])]

read_logs_response(F) ==
  IF ~F.exists THEN [status |-> 200, body |-> [ok |-> TRUE, data |-> <<>>]]
  ELSE LET rows == DictReader(F.lines)
           out == [n \in 1..Len(rows) |-> DecodeRow(rows[n])]
       IN  IF \E n \in 1..Len(out) : ~out[n].ok THEN [status |-> 500]
           ELSE [status |-> 200,
                 body |-> [ok |-> TRUE, count |-> Len(out),
                           data |-> [n \in 1..Len(out) |-> out[n].row]]]

\* --------------------------------------------------------------- Init --
Init ==
  /\ APIIP_KEY \in Keys
  /\ TRUST_PROXY \in BOOLEAN
  /\ LOG_FILE = [exists |-> FALSE, lines |-> <<>>]
  /\ clock = 0
  /\ pc = [t \in Workers |-> "idle"]
  /\ req = [t \in Workers |-> NoRequest]
  /\ ip = [t \in Workers |-> <<>>]
  /\ ua = [t \in Workers |-> <<>>]
  /\ geo = [t \in Workers |-> JNull]
  /\ row = [t \in Workers |-> <<>>]
  /\ file_exists = [t \in Workers |-> FALSE]
  /\ upstream = NoCall
  /\ resp = NoResp
  /\ logsResp = NoResp
  /\ lastReq = "none"
  /\ logsRun = 0
  /\ appended = <<>>

\* ------------------------------------------------------------ consent --
\* render_template("consent.html")
consent_response == [status |-> 200, body |-> <<"consent.html">>]

\* GET /
consent ==
  /\ lastReq' = "consent"
  /\ upstream' = NoCall
  /\ resp' = NoResp
  /\ UNCHANGED <<config, LOG_FILE, clock, pc, locals, logsResp, logsRun, appended>>

\* ---------------------------------------------------------- do_lookup --
error_response(e) == [status |-> 502, body |-> [ok |-> FALSE, error |-> e]]

success_response(i, a, g) ==
  [status |-> 200, body |-> [ok |-> TRUE, your_ip |-> i, user_agent |-> a, geolocation |-> g]]

\* the request is over: the worker's locals are gone
Return(t, r) ==
  /\ resp' = r
  /\ pc' = [pc EXCEPT ![t] = "idle"]
  /\ req' = [req EXCEPT ![t] = NoRequest]
  /\ ip' = [ip EXCEPT ![t] = <<>>]
  /\ ua' = [ua EXCEPT ![t] = <<>>]
  /\ geo' = [geo EXCEPT ![t] = JNull]
  /\ row' = [row EXCEPT ![t] = <<>>]
  /\ file_exists' = [file_exists EXCEPT ![t] = FALSE]

\* the except branch, with a log_visit call that the code does not make
lookup_failed_logged(t, i, a, e) ==
  /\ Return(t, error_response(e))
  /\ LOG_FILE' = [exists |-> TRUE,
                  lines |-> log_visit(LOG_FILE.exists, LOG_FILE.lines,
                                      <<Timestamp(clock'), i, a, <<>>>>)]
  /\ UNCHANGED appended

\* except requests.RequestException as e: return the failure envelope, 502
lookup_failed(t, i, a, e) ==
  /\ Return(t, error_response(e))
  /\ UNCHANGED <<LOG_FILE, appended>>

\* POST /lookup up to the call of log_visit: resolve the ip, read the user
\* agent, call geo_lookup, build the row. Flask serves each request on a thread
\* of its own; the request takes the lowest free worker, which one is immaterial
do_lookup(t) ==
  /\ pc[t] = "idle"
  /\ \A w \in Workers : w < t => pc[w] # "idle"
  /\ clock < MaxLookups
  /\ clock' = clock + 1
  /\ \E r \in Requests, u \in Upstream :
       LET i == get_client_ip(r)
           a == Get(r.user_agent, <<>>)
           g == geo_lookup(i, u)
       IN  /\ upstream' = u
           /\ IF g.ok
              THEN /\ pc' = [pc EXCEPT ![t] = "log_visit"]
                   /\ req' = [req EXCEPT ![t] = r]
                   /\ ip' = [ip EXCEPT ![t] = i]
                   /\ ua' = [ua EXCEPT ![t] = a]
                   /\ geo' = [geo EXCEPT ![t] = g.geo]
                   /\ row' = [row EXCEPT ![t] = VisitRow(clock', i, a, g.geo)]
                   /\ resp' = NoResp
                   /\ UNCHANGED <<LOG_FILE, file_exists, appended>>
              ELSE lookup_failed(t, i, a, g.error)
  /\ lastReq' = "lookup"
  /\ logsRun' = 0
  /\ logsResp' = NoResp
  /\ UNCHANGED config

\* log_visit: file_exists = os.path.isfile(LOG_FILE)
log_visit_isfile(t) ==
  /\ pc[t] = "log_visit"
  /\ file_exists' = [file_exists EXCEPT ![t] = LOG_FILE.exists]
  /\ pc' = [pc EXCEPT ![t] = "open"]
  /\ upstream' = NoCall
  /\ resp' = NoResp
  /\ lastReq' = "lookup"
  /\ logsRun' = 0
  /\ logsResp' = NoResp
  /\ UNCHANGED <<config, LOG_FILE, clock, req, ip, ua, geo, row, appended>>

\* log_visit: open for append, write the header if the file was not there, write
\* the row, close; then do_lookup returns the success envelope. The header and
\* the row sit in the file object's buffer until close and reach the file in
\* one append (rows here are far below the buffer's size), so this is one step
log_visit_write(t) ==
  /\ pc[t] = "open"
  /\ LOG_FILE' = [exists |-> TRUE,
                  lines |-> log_visit(file_exists[t], LOG_FILE.lines, row[t])]
  /\ appended' = Append(appended, [ts |-> row[t][1], ip |-> ip[t],
                                   user_agent |-> ua[t], geo |-> geo[t]])
  /\ Return(t, success_response(ip[t], ua[t], geo[t]))
  /\ upstream' = NoCall
  /\ lastReq' = "lookup"
  /\ logsRun' = 0
  /\ logsResp' = NoResp
  /\ UNCHANGED <<config, clock>>

\* the OSError swallowed, and the success envelope returned
log_visit_error_swallowed(t) ==
  /\ pc[t] = "open"
  /\ \E created \in BOOLEAN :
       LOG_FILE' = [LOG_FILE EXCEPT !.exists = LOG_FILE.exists \/ created]
  /\ Return(t, success_response(ip[t], ua[t], geo[t]))
  /\ upstream' = NoCall
  /\ lastReq' = "lookup"
  /\ logsRun' = 0
  /\ logsResp' = NoResp
  /\ UNCHANGED <<config, clock, appended>>

\* log_visit raises OSError: open fails, or open creates the file and the
\* write fails; do_lookup does not catch it, the framework answers 500
log_visit_error(t) ==
  /\ pc[t] = "open"
  /\ \E created \in BOOLEAN :
       LOG_FILE' = [LOG_FILE EXCEPT !.exists = LOG_FILE.exists \/ created]
  /\ Return(t, [status |-> 500])
  /\ upstream' = NoCall
  /\ lastReq' = "lookup"
  /\ logsRun' = 0
  /\ logsResp' = NoResp
  /\ UNCHANGED <<config, clock, appended>>

\* ---------------------------------------------------------- read_logs --
\* GET /logs that opens the file for writing
read_logs_truncating ==
  /\ logsResp' = read_logs_response(LOG_FILE)
  /\ LOG_FILE' = [LOG_FILE EXCEPT !.lines = <<>>]
  /\ lastReq' = "logs"
  /\ logsRun' = IF logsRun < 2 THEN logsRun + 1 ELSE 2
  /\ upstream' = NoCall
  /\ resp' = NoResp
  /\ UNCHANGED <<config, clock, pc, locals, appended>>

\* GET /logs
read_logs ==
  /\ logsResp' = read_logs_response(LOG_FILE)
  /\ lastReq' = "logs"
  /\ logsRun' = IF logsRun < 2 THEN logsRun + 1 ELSE 2
  /\ upstream' = NoCall
  /\ resp' = NoResp
  /\ UNCHANGED <<config, LOG_FILE, clock, pc, locals, appended>>

\* ---------------------------------------------------------------- Next --
Next ==
  \/ consent
  \/ read_logs
  \/ \E t \in Workers : do_lookup(t)
  \/ \E t \in Workers : log_visit_isfile(t)
  \/ \E t \in Workers : log_visit_write(t)
  \/ \E t \in Workers : log_visit_error(t)

Spec == Init /\ [][Next]_vars

\* ------------------------------------------- get_client_ip on its own --
\* line 82 of do_lookup, for any request
resolve(t) ==
  /\ pc[t] = "idle"
  /\ \A w \in Workers : w < t => pc[w] # "idle"
  /\ \E r \in AllRequests :
       /\ req' = [req EXCEPT ![t] = r]
       /\ ip' = [ip EXCEPT ![t] = get_client_ip(r)]
  /\ UNCHANGED <<config, LOG_FILE, clock, pc, ua, geo, row, file_exists, upstream,
                 resp, logsResp, lastReq, logsRun, appended>>

NextIP == \E t \in Workers : resolve(t)

SpecIP == Init /\ [][NextIP]_vars

\* ============================================================ claims ==
IsPrefix(a, b) == Len(a) <= Len(b) /\ SubSeq(b, 1, Len(a)) = a
Contains(s, tok) == \E n \in 1..Len(s) : s[n] = tok
Header == csv_writerow(fieldnames)
\* the rows a reader of the CSV file takes as data: every line after the first
DataRows(lines) == IF lines = <<>> THEN <<>> ELSE Tail(lines)
\* worker t takes the step that ends log_visit
EndsLogVisit(t) == pc[t] = "open" /\ pc'[t] = "idle"

\* C1: a POST /lookup whose upstream call and log write succeed adds exactly one
\* data row to the log, the row read back from the file carries this request's
\* ip, user agent and serialized geo payload, and the response is the success
\* envelope, status 200, whose geolocation is the upstream's decoded body.
C1_LookupAppendsOneRow ==
  [][\A t \in Workers :
       (EndsLogVisit(t) /\ resp'.status = 200) =>
         /\ DataRows(LOG_FILE'.lines) =
              Append(DataRows(LOG_FILE.lines), csv_writerow(row[t]))
         /\ LET cells == csv_readrow(LOG_FILE'.lines[Len(LOG_FILE'.lines)])
            IN  /\ Len(cells) = 4
                /\ cells[2] = ip[t]
                /\ cells[3] = ua[t]
                /\ cells[4] = json_dumps(geo[t])
         /\ resp'.body = [ok |-> TRUE, your_ip |-> ip[t], user_agent |-> ua[t],
                          geolocation |-> geo[t]]]_vars

\* C2: a POST /lookup whose upstream call fails leaves the log file as it was
\* (nothing appended, not created) and answers {ok: false, error} with status 502.
C2_FailedLookupLeavesLog ==
  [][upstream'.kind \in FailKinds =>
       /\ LOG_FILE' = LOG_FILE
       /\ appended' = appended
       /\ resp'.status = 502
       /\ DOMAIN resp'.body = {"ok", "error"}
       /\ resp'.body.ok = FALSE]_vars

\* a failed lookup after a logged one: the file is there and has its rows
C2_Witness ==
  /\ upstream.kind \in FailKinds
  /\ resp.status = 502
  /\ LOG_FILE.exists
  /\ Len(LOG_FILE.lines) >= 2

RECURSIVE JMentions(_, _)
\* a string inside the JSON value v contains the token
JMentions(v, tok) ==
  CASE v.t = "null" -> FALSE
    [] v.t = "str"  -> Contains(v.s, tok)
    [] v.t = "arr"  -> \E n \in 1..Len(v.a) : JMentions(v.a[n], tok)
    [] v.t = "obj"  -> \E k \in DOMAIN v.o : Contains(k, tok) \/ JMentions(v.o[k], tok)

\* C3: no response body of GET /, POST /lookup or GET /logs contains the API
\* access key.
C3_KeyNeverExposed ==
  /\ ~Contains(consent_response.body, APIIP_KEY)
  /\ resp.status = 502 => ~Contains(resp.body.error, APIIP_KEY)
  /\ resp.status = 200 =>
       /\ ~Contains(resp.body.your_ip, APIIP_KEY)
       /\ ~Contains(resp.body.user_agent, APIIP_KEY)
       /\ ~JMentions(resp.body.geolocation, APIIP_KEY)
  /\ logsResp.status = 200 =>
       \A n \in 1..Len(logsResp.body.data) : ~JMentions(logsResp.body.data[n], APIIP_KEY)

\* the record GET /logs is to return for an appended record
LoggedRecord(a) ==
  JObj((<<"ts">> :> JStr(a.ts)) @@ (<<"ip">> :> JStr(a.ip))
       @@ (<<"user_agent">> :> JStr(a.user_agent)) @@ (<<"geo_json">> :> a.geo))

\* C4: GET /logs returns every record a successful POST /lookup appended, in
\* append order, with geo_json decoded to the original upstream payload, and
\* count is the number of records returned.
C4_LogsRoundTrip ==
  (lastReq = "logs" /\ appended # <<>>) =>
    /\ logsResp.status = 200
    /\ "count" \in DOMAIN logsResp.body
    /\ logsResp.body.count = Len(logsResp.body.data)
    /\ Len(logsResp.body.data) = Len(appended)
    /\ \A n \in 1..Len(appended) : logsResp.body.data[n] = LoggedRecord(appended[n])

\* C5: GET /logs without a log file answers 200 with {ok: true, count: 0, data: []},
\* the fields of the answer given when the file exists.
C5_LogsWithoutFile ==
  (lastReq = "logs" /\ ~LOG_FILE.exists) =>
    /\ logsResp.status = 200
    /\ DOMAIN logsResp.body = {"ok", "count", "data"}
    /\ logsResp.body.ok = TRUE
    /\ logsResp.body.count = 0
    /\ logsResp.body.data = <<>>

\* e is what precedes the first comma of s (all of s when it has none)
IsFirstEntry(e, s) ==
  /\ IsPrefix(e, s)
  /\ ~Contains(e, ",")
  /\ Len(e) = Len(s) \/ s[Len(e) + 1] = ","

\* x is e without its leading and trailing whitespace
IsTrimmed(x, e) ==
  /\ \E lead \in 0..Len(e) :
       /\ \A n \in 1..lead : e[n] \in Whitespace
       /\ IsPrefix(x, SubSeq(e, lead + 1, Len(e)))
       /\ \A n \in (lead + Len(x) + 1)..Len(e) : e[n] \in Whitespace
  /\ x # <<>> => x[1] \notin Whitespace /\ x[Len(x)] \notin Whitespace

\* C6: with trust-proxy off the resolved ip is the peer address whatever the
\* forwarding header; with it on and a non-empty header it is the header's first
\* comma-separated entry without surrounding whitespace; with it on and an empty
\* or absent header it is the peer address; an absent peer address counts as "".
C6_ClientIp ==
  \A t \in Workers :
    LET r == req[t]
        peer == IF r.remote_addr.some THEN r.remote_addr.v ELSE <<>>
        forwarded == r.xff.some /\ r.xff.v # <<>>
    IN  /\ ~TRUST_PROXY => ip[t] = peer
        /\ (TRUST_PROXY /\ ~forwarded) => ip[t] = peer
        /\ (TRUST_PROXY /\ forwarded) =>
             \E n \in 0..Len(r.xff.v) :
               /\ IsFirstEntry(SubSeq(r.xff.v, 1, n), r.xff.v)
               /\ IsTrimmed(ip[t], SubSeq(r.xff.v, 1, n))

\* a trusted header whose first entry has blanks around it
C6_Witness ==
  \E t \in Workers :
    /\ TRUST_PROXY
    /\ req[t].xff = Some(<<" ", "1.2.3.4", " ">>)
    /\ req[t].remote_addr = Some(<<"9.9.9.9">>)
    /\ ip[t] = <<"1.2.3.4">>

\* C7: the log only grows at its end: in every step the lines of the file, and
\* its data rows, before the step are a prefix of those after it, and the file
\* does not vanish.
C7_AppendOnly ==
  [][/\ IsPrefix(LOG_FILE.lines, LOG_FILE'.lines)
     /\ IsPrefix(DataRows(LOG_FILE.lines), DataRows(LOG_FILE'.lines))
     /\ LOG_FILE.exists => LOG_FILE'.exists]_vars

\* two records in the file, in the order they were appended
C7_Witness ==
  /\ Len(appended) >= 2
  /\ Len(LOG_FILE.lines) >= 3
  /\ LOG_FILE.lines[Len(LOG_FILE.lines)] =
       csv_writerow(<<appended[Len(appended)].ts, appended[Len(appended)].ip,
                      appended[Len(appended)].user_agent,
                      json_dumps(appended[Len(appended)].geo)>>)

\* C8: GET / and GET /logs leave the log file as it is, and a GET /logs that
\* follows another with no POST /lookup step in between returns the same response.
C8_ReadsHaveNoEffect ==
  [][/\ lastReq' \in {"consent", "logs"} => LOG_FILE' = LOG_FILE
     /\ (lastReq' = "logs" /\ logsRun >= 1) => logsResp' = logsResp]_vars

\* a second GET /logs in a row on a file with records
C8_Witness ==
  /\ lastReq = "logs"
  /\ logsRun = 2
  /\ logsResp.status = 200
  /\ "count" \in DOMAIN logsResp.body
  /\ logsResp.body.count >= 1

\* C9: when the log file has lines, the first is the header and no later one is.
C9_HeaderOnce ==
  (LOG_FILE.exists /\ LOG_FILE.lines # <<>>) =>
    /\ LOG_FILE.lines[1] = Header
    /\ \A n \in 2..Len(LOG_FILE.lines) : LOG_FILE.lines[n] # Header

\* C10: the step that ends log_visit either appends the request's row and
\* returns the success envelope, or fails, leaves the lines of the file alone and
\* answers 500 with the worker free again (no retry); a success envelope comes
\* from no other step.
C10_AppendBeforeResponse ==
  [][/\ \A t \in Workers :
          EndsLogVisit(t) =>
            \/ /\ resp'.status = 200
               /\ resp'.body.ok = TRUE
               /\ Len(LOG_FILE'.lines) > Len(LOG_FILE.lines)
               /\ LOG_FILE'.lines[Len(LOG_FILE'.lines)] = csv_writerow(row[t])
               /\ Len(appended') = Len(appended) + 1
            \/ /\ resp'.status = 500
               /\ LOG_FILE'.lines = LOG_FILE.lines
               /\ appended' = appended
     /\ (resp'.status = 200 /\ vars' # vars) => \E t \in Workers : EndsLogVisit(t)]_vars

\* a log write that failed after a successful upstream call
C10_Witness ==
  /\ resp.status = 500
  /\ lastReq = "lookup"
  /\ upstream = NoCall
  /\ clock >= 1

====
